---- MODULE Spec2Model ----
(***************************************************************************)
(* WalkPlanner: the route optimizer (RouteOptimizer component), the App     *)
(* state it reports to, and the drawing canvas (CanvasDrawer component).   *)
(* The graph (nodes, routes) is App's state and the pair of props the      *)
(* optimizer receives; the functions are translated from                   *)
(* src/src/utils/labelUtils.ts.                                            *)
(***************************************************************************)
EXTENDS Integers, Sequences, FiniteSets, TLC

VARIABLES
  nodes,                  \* RouteOptimizer prop / App state: sequence of Node records
  routes,                 \* RouteOptimizer prop / App state: sequence of Route records
  isOptimizing,           \* RouteOptimizer state
  optimizationResult,     \* RouteOptimizer state: None or Some([path, totalDistance])
  optimizedPath,          \* App state: sequence of node ids
  showOptimizationResult, \* App state
  lastOp,                 \* observation: which handler ran last and how it left
  onOptimizeArg,          \* observation: None, or Some(path) passed to onOptimize by the last handler
  previousTotal,          \* observation: None, or Some(total) of the search the last search
                          \* followed directly
  probe,                  \* observation: None, or Some(call) for a helper applied on its own
  uploadedImage,          \* App state: None or Some(url)
  canvasNodes,            \* CanvasDrawer state `nodes`
  canvasRoutes,           \* CanvasDrawer state `routes`
  selectedNode,           \* CanvasDrawer state: a node id, 0 for null
  history,                \* CanvasDrawer state: sequence of [nodes, routes]; history[0] is the first entry
  currentStep,            \* CanvasDrawer state: index into history, counted from 0
  isDrawingEnabled,       \* CanvasDrawer state
  onRoutesUpdateArg,      \* observation: None, or Some([routes, nodes]) the last canvas handler
                          \* passed to onRoutesUpdate
  graphBeforeClick        \* observation: None, or Some([nodes, routes]) of the canvas before the
                          \* last handler, when that was a click that changed the graph

vars == <<nodes, routes, isOptimizing, optimizationResult, optimizedPath,
          showOptimizationResult, lastOp, onOptimizeArg, previousTotal, probe,
          uploadedImage, canvasNodes, canvasRoutes, selectedNode, history, currentStep,
          isDrawingEnabled, onRoutesUpdateArg, graphBeforeClick>>

canvasVars == <<uploadedImage, canvasNodes, canvasRoutes, selectedNode, history, currentStep,
                isDrawingEnabled, onRoutesUpdateArg, graphBeforeClick>>

----------------------------------------------------------------------------
(* Bounds of the explored inputs *)

MaxNodes == 4     \* graphs have at most this many nodes
MaxRoutes == 3    \* enumerated graphs have at most this many routes
MaxSize == 6      \* and at most this many nodes and routes together
MaxDist == 2      \* route distances range over 1..MaxDist
MaxPathDist == 3  \* the same for the graphs the shortest-path helper is applied to
MaxSeed == 2      \* seeds of the random source range over 0..MaxSeed
MaxPermRoutes == 6  \* the order generator permutes at most this many routes
MaxStepNodes == 3   \* graphs of the stepwise shortest-path search: at most this many nodes
MaxStepRoutes == 2  \* and at most this many routes
MaxCanvasNodes == 3   \* a drawing has at most this many nodes
MaxCanvasRoutes == 4  \* and at most this many routes
MaxHistory == 5       \* and its history at most this many entries
MaxLabelIndex == 710  \* getNodeLabel is applied to the indices 0..MaxLabelIndex

(* Program constants *)

MaxRouteCount == 12      \* routes.length > 12 is rejected
ExhaustiveLimit == 8     \* edges.length > 8 switches to sampling
RandomOrders == 10       \* number of shuffled orderings
Infinity == 1000000      \* JavaScript Infinity: above every finite total of the model
NodeClickRadius == 10    \* findNearestNode: a click within 10px of a node is on the node
NodeMinDistance == 16    \* isTooCloseToExistingNodes: 16px minimum distance
RouteClickThreshold == 15  \* findNearestRoute: 15px threshold for clicking on a line

(* null / a value: an option is the empty or the one-element sequence *)
None == <<>>
Some(x) == <<x>>
IsSome(o) == o /= <<>>
Val(o) == o[1]

----------------------------------------------------------------------------
(* Helpers over sequences *)

Range(s) == {s[i] : i \in DOMAIN s}

NodeIds == {nodes[i].id : i \in DOMAIN nodes}

\* RemoveAt that keeps edges.slice(0, i) only
RemoveAt_DropsRest(s, i) == SubSeq(s, 1, i - 1)

RemoveAt(s, i) == SubSeq(s, 1, i - 1) \o SubSeq(s, i + 1, Len(s))

----------------------------------------------------------------------------
(* getDistanceBetweenNodes: distance of the FIRST route joining the two    *)
(* nodes in either direction, 0 when there is none.                        *)

getDistanceBetweenNodes(nodeId1, nodeId2) ==
  LET match == {i \in DOMAIN routes :
                  \/ routes[i].startNodeId = nodeId1 /\ routes[i].endNodeId = nodeId2
                  \/ routes[i].startNodeId = nodeId2 /\ routes[i].endNodeId = nodeId1}
  IN IF match = {} THEN 0
     ELSE routes[CHOOSE i \in match : \A j \in match : i <= j].distance

----------------------------------------------------------------------------
(* findShortestPath: Dijkstra with a linear scan for the closest unvisited *)
(* node.  distances has the keys of all node ids plus startId.             *)

\* the scan of lines 297-304: first node, in insertion order of `unvisited`,
\* whose distance is strictly below every earlier candidate; 0 when none is
\* below Infinity
RECURSIVE ScanUnvisited(_, _, _, _, _)
ScanUnvisited(i, distances, unvisited, current, minDistance) ==
  IF i > Len(nodes) THEN current
  ELSE LET nodeId == nodes[i].id
       IN IF nodeId \in unvisited /\ distances[nodeId] < minDistance
          THEN ScanUnvisited(i + 1, distances, unvisited, nodeId, distances[nodeId])
          ELSE ScanUnvisited(i + 1, distances, unvisited, current, minDistance)

\* lines 312-317: follow `previous` from endId until null (0)
RECURSIVE ReconstructPath(_, _, _)
ReconstructPath(previous, node, path) ==
  IF node = 0 THEN path
  ELSE ReconstructPath(previous, previous[node], <<node>> \o path)

\* lines 295-337.  DijkstraLoop is one turn of the while loop and its scan;
\* VisitCurrent is the body from line 306 on; CheckNeighbors is the
\* routes.forEach of lines 322-334, route by route, after which the loop turns
\* again.
RECURSIVE DijkstraLoop(_, _, _, _)
RECURSIVE VisitCurrent(_, _, _, _, _)
RECURSIVE CheckNeighbors(_, _, _, _, _, _)

\* CheckNeighbors that follows a route from its start to its end only
CheckNeighbors_Directed(i, endId, current, unvisited, distances, previous) ==
  IF i > Len(routes) THEN DijkstraLoop(endId, distances, previous, unvisited)
  ELSE LET route == routes[i]
           neighbor == IF route.startNodeId = current THEN route.endNodeId ELSE 0
           altDistance == distances[current] + route.distance
       IN IF neighbor /= 0 /\ neighbor \in unvisited /\ altDistance < distances[neighbor]
          THEN CheckNeighbors(i + 1, endId, current, unvisited,
                              [distances EXCEPT ![neighbor] = altDistance],
                              [previous EXCEPT ![neighbor] = current])
          ELSE CheckNeighbors(i + 1, endId, current, unvisited, distances, previous)

\* CheckNeighbors that keeps the first distance found for a neighbour
CheckNeighbors_NoImprove(i, endId, current, unvisited, distances, previous) ==
  IF i > Len(routes) THEN DijkstraLoop(endId, distances, previous, unvisited)
  ELSE LET route == routes[i]
           neighbor == IF route.startNodeId = current THEN route.endNodeId
                       ELSE IF route.endNodeId = current THEN route.startNodeId
                       ELSE 0
           altDistance == distances[current] + route.distance
       IN IF neighbor /= 0 /\ neighbor \in unvisited /\ distances[neighbor] = Infinity
          THEN CheckNeighbors(i + 1, endId, current, unvisited,
                              [distances EXCEPT ![neighbor] = altDistance],
                              [previous EXCEPT ![neighbor] = current])
          ELSE CheckNeighbors(i + 1, endId, current, unvisited, distances, previous)

CheckNeighbors(i, endId, current, unvisited, distances, previous) ==
  IF i > Len(routes) THEN DijkstraLoop(endId, distances, previous, unvisited)
  ELSE LET route == routes[i]
           neighbor == IF route.startNodeId = current THEN route.endNodeId
                       ELSE IF route.endNodeId = current THEN route.startNodeId
                       ELSE 0
           altDistance == distances[current] + route.distance
       IN IF neighbor /= 0 /\ neighbor \in unvisited /\ altDistance < distances[neighbor]
          THEN CheckNeighbors(i + 1, endId, current, unvisited,
                              [distances EXCEPT ![neighbor] = altDistance],
                              [previous EXCEPT ![neighbor] = current])
          ELSE CheckNeighbors(i + 1, endId, current, unvisited, distances, previous)

VisitCurrent(endId, distances, previous, unvisited, current) ==
  IF current = 0 THEN None       \* current === null || distances[current] === Infinity
  ELSE IF current = endId
  THEN Some([path |-> ReconstructPath(previous, endId, <<>>), distance |-> distances[endId]])
  ELSE CheckNeighbors(1, endId, current, unvisited \ {current}, distances, previous)

DijkstraLoop(endId, distances, previous, unvisited) ==
  IF unvisited = {} THEN None
  ELSE VisitCurrent(endId, distances, previous, unvisited,
                    ScanUnvisited(1, distances, unvisited, 0, Infinity))

\* findShortestPath whose shortcut returns a path without the node
findShortestPath_EmptyTrivialPath(startId, endId) ==
  IF startId = endId THEN Some([path |-> <<>>, distance |-> 0])
  ELSE DijkstraLoop(endId,
                    [id \in NodeIds \cup {startId} |-> IF id = startId THEN 0 ELSE Infinity],
                    [id \in NodeIds |-> 0],
                    NodeIds)

\* lines 280-338; null in `previous` is 0
findShortestPath(startId, endId) ==
  IF startId = endId THEN Some([path |-> <<startId>>, distance |-> 0])
  ELSE DijkstraLoop(endId,
                    [id \in NodeIds \cup {startId} |-> IF id = startId THEN 0 ELSE Infinity],
                    [id \in NodeIds |-> 0],
                    NodeIds)

----------------------------------------------------------------------------
(* traverseEdgesInOrder.  st is the record of its locals: path, currentNode, *)
(* totalDistance, edgesCovered.                                              *)

\* lines 370-373 and 388-391: push legPath[i], legPath[i+1], ... adding for
\* every hop the distance getDistanceBetweenNodes reports for it
RECURSIVE AppendLeg(_, _, _)
AppendLeg(legPath, i, st) ==
  IF i > Len(legPath) THEN st
  ELSE AppendLeg(legPath, i + 1,
                 [st EXCEPT !.path = Append(@, legPath[i]),
                            !.totalDistance =
                               @ + getDistanceBetweenNodes(legPath[i - 1], legPath[i])])

\* ChoosePath that heads for the route's start whenever it is reachable
ChoosePath_PreferStart(pathToStart, pathToEnd) ==
  IF IsSome(pathToStart) THEN pathToStart ELSE pathToEnd

\* lines 364-367
ChoosePath(pathToStart, pathToEnd) ==
  IF IsSome(pathToEnd) /\
     (~IsSome(pathToStart) \/ Val(pathToEnd).distance < Val(pathToStart).distance)
  THEN pathToEnd ELSE pathToStart

\* lines 369-375
FollowChosenPath(st, chosenPath) ==
  IF IsSome(chosenPath) /\ Len(Val(chosenPath).path) > 1
  THEN [AppendLeg(Val(chosenPath).path, 2, st)
          EXCEPT !.currentNode = Val(chosenPath).path[Len(Val(chosenPath).path)]]
  ELSE st

\* lines 360-376: the connecting leg towards `edge`
ConnectTo(st, edge) ==
  IF st.currentNode /= edge.startNodeId /\ st.currentNode /= edge.endNodeId
  THEN FollowChosenPath(st, ChoosePath(findShortestPath(st.currentNode, edge.startNodeId),
                                       findShortestPath(st.currentNode, edge.endNodeId)))
  ELSE st

\* TraverseEdge that follows a route from its start to its end only
TraverseEdge_AlwaysToEnd(st, edge) ==
  [st EXCEPT !.edgesCovered = @ \cup {edge.id},
             !.totalDistance = @ + edge.distance,
             !.currentNode = edge.endNodeId,
             !.path = Append(@, edge.endNodeId)]

\* TraverseEdge that charges nothing when the position does not change
TraverseEdge_FreeInPlace(st, edge) ==
  LET next == IF st.currentNode = edge.startNodeId THEN edge.endNodeId ELSE edge.startNodeId
  IN [st EXCEPT !.edgesCovered = @ \cup {edge.id},
                !.totalDistance = IF next = st.currentNode THEN @ ELSE @ + edge.distance,
                !.currentNode = next,
                !.path = Append(@, next)]

\* lines 378-382: traverse the edge itself
TraverseEdge(st, edge) ==
  LET next == IF st.currentNode = edge.startNodeId THEN edge.endNodeId ELSE edge.startNodeId
  IN [st EXCEPT !.edgesCovered = @ \cup {edge.id},
                !.totalDistance = @ + edge.distance,
                !.currentNode = next,
                !.path = Append(@, next)]

\* lines 357-382: one turn of the loop
TraverseStep(st, edge) ==
  IF edge.id \in st.edgesCovered THEN st
  ELSE TraverseEdge(ConnectTo(st, edge), edge)

\* lines 356-383: the loop over the ordering
RECURSIVE TraverseLoop(_, _, _)
TraverseLoop(edgeOrder, i, st) ==
  IF i > Len(edgeOrder) THEN st
  ELSE TraverseLoop(edgeOrder, i + 1, TraverseStep(st, edgeOrder[i]))

\* FollowReturnPath that forgets the way back
FollowReturnPath_Stay(st, returnPath) == st

\* lines 387-392
FollowReturnPath(st, returnPath) ==
  IF IsSome(returnPath) /\ Len(Val(returnPath).path) > 1
  THEN AppendLeg(Val(returnPath).path, 2, st)
  ELSE st

\* lines 385-394: the way back to the start, and the value returned (never null)
ReturnToStart(startNodeId, st) ==
  LET done == FollowReturnPath(st, findShortestPath(st.currentNode, startNodeId))
  IN Some([path |-> done.path, totalDistance |-> done.totalDistance])

\* lines 351-354: the locals at the start of a walk
StartAt(startNodeId) ==
  [path |-> <<startNodeId>>, currentNode |-> startNodeId,
   totalDistance |-> 0, edgesCovered |-> {}]

\* lines 350-395
traverseEdgesInOrder(startNodeId, edgeOrder) ==
  ReturnToStart(startNodeId, TraverseLoop(edgeOrder, 1, StartAt(startNodeId)))

----------------------------------------------------------------------------
(* Edge-order generation *)

\* lines 398-413: all permutations, in the order the recursion produces them
RECURSIVE getEdgePermutations(_)
getEdgePermutations(edges) ==
  IF Len(edges) <= 1 THEN <<edges>>
  ELSE LET PermsFrom(i) ==
             LET perms == getEdgePermutations(RemoveAt(edges, i))
             IN [k \in 1..Len(perms) |-> <<edges[i]>> \o perms[k]]
           RECURSIVE Collect(_, _)
           Collect(i, result) ==
             IF i > Len(edges) THEN result ELSE Collect(i + 1, result \o PermsFrom(i))
       IN Collect(1, <<>>)

\* Array.prototype.sort with a consistent comparator is stable: insertion sort
\* on the comparator's sign, keeping the input order among equal distances.
\* descending = FALSE is (a, b) => a.distance - b.distance, TRUE the reverse.
Compare(a, b, descending) ==
  IF descending THEN b.distance - a.distance ELSE a.distance - b.distance

RECURSIVE InsertSorted(_, _, _)
InsertSorted(sorted, e, descending) ==
  IF sorted = <<>> THEN <<e>>
  ELSE IF Compare(e, sorted[Len(sorted)], descending) < 0
       THEN Append(InsertSorted(SubSeq(sorted, 1, Len(sorted) - 1), e, descending),
                   sorted[Len(sorted)])
       ELSE Append(sorted, e)

RECURSIVE SortByDistance(_, _, _)
SortByDistance(edges, n, descending) ==
  IF n = 0 THEN <<>>
  ELSE InsertSorted(SortByDistance(edges, n - 1, descending), edges[n], descending)

\* [...edges].sort(() => Math.random() - 0.5): the same sort over a copy, with
\* a comparator that ignores its arguments.  RandomNegative(r, k, j) is the
\* sign Math.random() - 0.5 takes, in the shuffle that starts at draw r, when
\* element k is compared with the j-th element placed so far.
RandomNegative(r, k, j) == (r + k * j + j) % 3 = 0

RECURSIVE RandomInsert(_, _, _, _)
RandomInsert(sorted, e, r, k) ==
  IF sorted = <<>> THEN <<e>>
  ELSE IF RandomNegative(r, k, Len(sorted))
       THEN Append(RandomInsert(SubSeq(sorted, 1, Len(sorted) - 1), e, r, k),
                   sorted[Len(sorted)])
       ELSE Append(sorted, e)

RECURSIVE ShuffleFirst(_, _, _)
ShuffleFirst(edges, n, r) ==
  IF n = 0 THEN <<>>
  ELSE RandomInsert(ShuffleFirst(edges, n - 1, r), edges[n], r, n)

Shuffled(edges, r) == ShuffleFirst(edges, Len(edges), r)

\* generateSmartEdgeOrders whose second strategy sorts ascending again
generateSmartEdgeOrders_AscendingTwice(edges, rnd) ==
  <<SortByDistance(edges, Len(edges), FALSE), SortByDistance(edges, Len(edges), FALSE)>>
  \o [i \in 1..RandomOrders |-> Shuffled(edges, rnd[i])]

\* lines 261-277
generateSmartEdgeOrders(edges, rnd) ==
  <<SortByDistance(edges, Len(edges), FALSE), SortByDistance(edges, Len(edges), TRUE)>>
  \o [i \in 1..RandomOrders |-> Shuffled(edges, rnd[i])]

\* lines 249-258
getAllEdgePermutations(edges, rnd) ==
  IF Len(edges) <= 1 THEN <<edges>>
  ELSE IF Len(edges) > ExhaustiveLimit THEN generateSmartEdgeOrders(edges, rnd)
  ELSE getEdgePermutations(edges)

----------------------------------------------------------------------------
(* The optimizer *)

\* Math.random as a seeded source: its c-th draw, and the RandomOrders draws
\* the i-th call of getAllEdgePermutations takes (one call per start node)
Draw(seed, c) == (seed + 1) * c
DrawsFor(seed, i) == [k \in 1..RandomOrders |-> Draw(seed, (i - 1) * RandomOrders + k)]

\* KeepBest without the comparison: the latest walk replaces the best so far
KeepBest_Latest(result, best) ==
  IF IsSome(result) THEN Val(result) ELSE best

\* lines 239-242 and 218-221: keep `result` when it is there and strictly
\* shorter than the best so far
KeepBest(result, best) ==
  IF IsSome(result) /\ Val(result).totalDistance < best.totalDistance
  THEN Val(result) ELSE best

KeepGlobalBest(result, globalBest) ==
  IF IsSome(result) /\ Val(result).totalDistance < globalBest.totalDistance
  THEN Val(result) ELSE globalBest

\* lines 237-243: best is the pair bestPath, bestDistance
RECURSIVE BestOfOrders(_, _, _, _)
BestOfOrders(startNodeId, edgeOrders, i, best) ==
  IF i > Len(edgeOrders) THEN best
  ELSE BestOfOrders(startNodeId, edgeOrders, i + 1,
                    KeepBest(traverseEdgesInOrder(startNodeId, edgeOrders[i]), best))

\* line 245
NonEmptyOrNull(best) == IF Len(best.path) > 0 THEN Some(best) ELSE None

\* lines 231-246; rnd are the draws this call takes
findOptimalPathFromStart(startNodeId, rnd) ==
  NonEmptyOrNull(BestOfOrders(startNodeId, getAllEdgePermutations(routes, rnd), 1,
                              [path |-> <<>>, totalDistance |-> Infinity]))

\* lines 216-222: the loop over the start nodes; globalBest is the pair
\* globalBestPath, globalMinDistance
RECURSIVE BestOfStarts(_, _, _)
BestOfStarts(i, seed, globalBest) ==
  IF i > Len(nodes) THEN globalBest
  ELSE BestOfStarts(i + 1, seed,
                    KeepGlobalBest(findOptimalPathFromStart(nodes[i].id, DrawsFor(seed, i)),
                                   globalBest))

\* lines 212-224: the value optimizeRoute stores and reports
OptimizeResult(seed) == BestOfStarts(1, seed, [path |-> <<>>, totalDistance |-> Infinity])

\* line 420
canOptimize == Len(nodes) >= 2 /\ Len(routes) >= 1

----------------------------------------------------------------------------
(* App handlers *)

\* lines 102-105
handleOptimization(path) ==
  /\ optimizedPath' = path
  /\ showOptimizationResult' = TRUE

----------------------------------------------------------------------------
(* RouteOptimizer handlers *)

\* lines 200-203: alert and return
OptimizeRouteNoRoutes ==
  /\ Len(routes) < 1
  /\ lastOp' = "optimizeRoute:alertNoRoutes"
  /\ onOptimizeArg' = None
  /\ UNCHANGED canvasVars
  /\ UNCHANGED <<nodes, routes, isOptimizing, optimizationResult, optimizedPath,
                 showOptimizationResult, previousTotal, probe>>

\* lines 205-208: alert and return
OptimizeRouteTooMany ==
  /\ ~(Len(routes) < 1)
  /\ Len(routes) > MaxRouteCount
  /\ lastOp' = "optimizeRoute:alertTooMany"
  /\ onOptimizeArg' = None
  /\ UNCHANGED canvasVars
  /\ UNCHANGED <<nodes, routes, isOptimizing, optimizationResult, optimizedPath,
                 showOptimizationResult, previousTotal, probe>>

\* the total distance of a stored result, None when there is none
TotalOf(result) == IF IsSome(result) THEN Some(Val(result).totalDistance) ELSE None

\* lines 224-226
StoreAndReport(result) ==
  /\ optimizationResult' = Some(result)
  /\ handleOptimization(result.path)
  /\ onOptimizeArg' = Some(result.path)

\* OptimizeRouteSearch whose set of covered routes outlives the call: a second
\* search finds every route covered and walks nowhere
OptimizeRouteSearch_KeepsCovered ==
  /\ ~(Len(routes) < 1)
  /\ ~(Len(routes) > MaxRouteCount)
  /\ \E seed \in 0..MaxSeed :
       /\ (Len(routes) <= ExhaustiveLimit => seed = 0)
       /\ StoreAndReport(IF IsSome(optimizationResult)
                         THEN [path |-> <<nodes[1].id>>, totalDistance |-> 0]
                         ELSE OptimizeResult(seed))
  /\ isOptimizing' = FALSE
  /\ lastOp' = "optimizeRoute:searched"
  /\ previousTotal' = TotalOf(optimizationResult)
  /\ UNCHANGED canvasVars
  /\ UNCHANGED <<nodes, routes, probe>>

\* OptimizeRouteSearch whose first strategy sorts the routes array itself
OptimizeRouteSearch_SortsInPlace ==
  /\ ~(Len(routes) < 1)
  /\ ~(Len(routes) > MaxRouteCount)
  /\ \E seed \in 0..MaxSeed :
       /\ (Len(routes) <= ExhaustiveLimit => seed = 0)
       /\ StoreAndReport(OptimizeResult(seed))
  /\ isOptimizing' = FALSE
  /\ lastOp' = "optimizeRoute:searched"
  /\ previousTotal' = TotalOf(optimizationResult)
  /\ routes' = IF Len(routes) > ExhaustiveLimit
               THEN SortByDistance(routes, Len(routes), FALSE) ELSE routes
  /\ UNCHANGED canvasVars
  /\ UNCHANGED <<nodes, probe>>

\* OptimizeRouteSearch without the limit of 12 routes
OptimizeRouteSearch_NoLimit ==
  /\ ~(Len(routes) < 1)
  /\ \E seed \in 0..MaxSeed :
       /\ (Len(routes) <= ExhaustiveLimit => seed = 0)
       /\ StoreAndReport(OptimizeResult(seed))
  /\ isOptimizing' = FALSE
  /\ lastOp' = "optimizeRoute:searched"
  /\ previousTotal' = TotalOf(optimizationResult)
  /\ UNCHANGED canvasVars
  /\ UNCHANGED <<nodes, routes, probe>>

\* lines 210-227: the search, setOptimizationResult, onOptimize, and
\* isOptimizing back to false
OptimizeRouteSearch ==
  /\ ~(Len(routes) < 1)
  /\ ~(Len(routes) > MaxRouteCount)
  /\ \E seed \in 0..MaxSeed :
       /\ (Len(routes) <= ExhaustiveLimit => seed = 0)  \* no draw is taken
       /\ StoreAndReport(OptimizeResult(seed))
  /\ isOptimizing' = FALSE
  /\ lastOp' = "optimizeRoute:searched"
  /\ previousTotal' = TotalOf(optimizationResult)
  /\ UNCHANGED canvasVars
  /\ UNCHANGED <<nodes, routes, probe>>

\* lines 415-418
resetOptimization ==
  /\ IsSome(optimizationResult)   \* the button is rendered with the result only
  /\ optimizationResult' = None
  /\ handleOptimization(<<>>)
  /\ onOptimizeArg' = Some(<<>>)
  /\ lastOp' = "resetOptimization"
  /\ previousTotal' = None
  /\ UNCHANGED canvasVars
  /\ UNCHANGED <<nodes, routes, isOptimizing, probe>>

----------------------------------------------------------------------------
(* The graphs explored *)

Node(i) == [id |-> i]

\* route number k of a graph carries id k; endpoints differ; ends is the set
\* of node ids a route may name
RouteSeqs(ends, r, maxDist) ==
  {[k \in 1..r |-> [id |-> k, startNodeId |-> f[k][1], endNodeId |-> f[k][2],
                    distance |-> f[k][3]]] :
     f \in [1..r -> {<<a, b, d>> \in ends \X ends \X (1..maxDist) : a /= b}]}

NodeSeq(n) == [i \in 1..n |-> Node(i)]

\* a ring of r routes over three nodes, for the route counts around the
\* sampling threshold and the limit
RingRoutes(r) ==
  [k \in 1..r |-> [id |-> k, startNodeId |-> (k % 3) + 1, endNodeId |-> ((k + 1) % 3) + 1,
                   distance |-> (k % MaxDist) + 1]]

\* lines 77 and 493-498: no image yet, and the canvas state's initial values
CanvasUnmounted ==
  /\ uploadedImage = None
  /\ canvasNodes = <<>>
  /\ canvasRoutes = <<>>
  /\ selectedNode = 0
  /\ history = <<>>
  /\ currentStep = -1
  /\ isDrawingEnabled = TRUE
  /\ onRoutesUpdateArg = None
  /\ graphBeforeClick = None

InitState(ns, rs) ==
  /\ nodes = ns
  /\ routes = rs
  /\ isOptimizing = FALSE
  /\ optimizationResult = None
  /\ optimizedPath = <<>>
  /\ showOptimizationResult = FALSE
  /\ lastOp = "init"
  /\ onOptimizeArg = None
  /\ previousTotal = None
  /\ CanvasUnmounted

\* the graphs a drawing can hold: every route joins two different nodes of the
\* graph; parallel routes, isolated nodes and several components included
Init ==
  /\ probe = None
  /\ \/ \E n \in 0..MaxNodes : \E r \in 0..MaxRoutes : \E rs \in RouteSeqs(1..n, r, MaxDist) :
          n + r <= MaxSize /\ InitState(NodeSeq(n), rs)
     \/ \E r \in (ExhaustiveLimit + 1)..(MaxRouteCount + 1) :
          InitState(NodeSeq(3), RingRoutes(r))

Next ==
  \/ OptimizeRouteNoRoutes
  \/ OptimizeRouteTooMany
  \/ OptimizeRouteSearch
  \/ resetOptimization

Spec == Init /\ [][Next]_vars

----------------------------------------------------------------------------
(* The component applied to props the caller did not validate: some route     *)
(* names a node id (n + 1) that is not in `nodes`.                            *)

HasUnknownEndpoint(rs) ==
  \E k \in DOMAIN rs : rs[k].startNodeId \notin NodeIds \/ rs[k].endNodeId \notin NodeIds

InitUnvalidated ==
  /\ probe = None
  /\ \E n \in 0..(MaxNodes - 1) : \E r \in 1..MaxRoutes :
       \E rs \in RouteSeqs(1..(n + 1), r, MaxDist) :
          /\ n + r < MaxSize
          /\ InitState(NodeSeq(n), rs)
          /\ HasUnknownEndpoint(rs)

NextUnvalidated ==
  \/ OptimizeRouteSearch
  \/ resetOptimization

SpecUnvalidated == InitUnvalidated /\ [][NextUnvalidated]_vars

----------------------------------------------------------------------------
(* findShortestPath applied on its own to a graph and a pair of its nodes *)

CallFindShortestPath(startId, endId) ==
  /\ probe = None
  /\ probe' = Some([startId |-> startId, endId |-> endId,
                    result |-> findShortestPath(startId, endId)])
  /\ UNCHANGED canvasVars
  /\ UNCHANGED <<nodes, routes, isOptimizing, optimizationResult, optimizedPath,
                 showOptimizationResult, lastOp, onOptimizeArg, previousTotal>>

InitPath ==
  /\ probe = None
  /\ \E n \in 1..MaxNodes : \E r \in 0..MaxRoutes : \E rs \in RouteSeqs(1..n, r, MaxPathDist) :
       n + r <= MaxSize /\ InitState(NodeSeq(n), rs)

NextPath == \E startId \in NodeIds : \E endId \in NodeIds : CallFindShortestPath(startId, endId)

SpecPath == InitPath /\ [][NextPath]_vars

----------------------------------------------------------------------------
(* findShortestPath run loop turn by loop turn.  `probe` holds the locals of *)
(* the call: distances, previous, unvisited, the path and node of the        *)
(* reconstruction, where the call stands (pc), the number of turns of the    *)
(* main loop so far, and the value returned.  The graphs have cycles,        *)
(* routes of distance 0, routes from a node to itself and routes naming an   *)
(* id that is no node.                                                       *)

\* lines 322-334 as a fold over the routes: the pair distances, previous
RECURSIVE RelaxRoutes(_, _, _, _, _)
RelaxRoutes(i, current, unvisited, distances, previous) ==
  IF i > Len(routes) THEN [distances |-> distances, previous |-> previous]
  ELSE LET route == routes[i]
           neighbor == IF route.startNodeId = current THEN route.endNodeId
                       ELSE IF route.endNodeId = current THEN route.startNodeId
                       ELSE 0
           altDistance == distances[current] + route.distance
       IN IF neighbor /= 0 /\ neighbor \in unvisited /\ altDistance < distances[neighbor]
          THEN RelaxRoutes(i + 1, current, unvisited,
                           [distances EXCEPT ![neighbor] = altDistance],
                           [previous EXCEPT ![neighbor] = current])
          ELSE RelaxRoutes(i + 1, current, unvisited, distances, previous)

IsFspProbe == IsSome(probe) /\ Val(probe).op = "findShortestPath"

\* lines 280-293
FspStart(startId, endId) ==
  /\ probe = None
  /\ probe' = Some([op |-> "findShortestPath", startId |-> startId, endId |-> endId,
                    distances |-> [id \in NodeIds \cup {startId} |->
                                     IF id = startId THEN 0 ELSE Infinity],
                    previous |-> [id \in NodeIds |-> 0],
                    unvisited |-> NodeIds,
                    path |-> <<>>, node |-> 0, iterations |-> 0,
                    pc |-> IF startId = endId THEN "done" ELSE "loop",
                    result |-> IF startId = endId
                               THEN Some([path |-> <<startId>>, distance |-> 0])
                               ELSE None])
  /\ UNCHANGED canvasVars
  /\ UNCHANGED <<nodes, routes, isOptimizing, optimizationResult, optimizedPath,
                 showOptimizationResult, lastOp, onOptimizeArg, previousTotal>>

\* TurnVisiting that leaves the visited node in `unvisited`
TurnVisiting_KeepsUnvisited(p, current) ==
  IF current = 0
  THEN [p EXCEPT !.iterations = @ + 1, !.pc = "done"]
  ELSE LET relaxed == RelaxRoutes(1, current, p.unvisited \ {current}, p.distances, p.previous)
       IN [p EXCEPT !.iterations = @ + 1,
                    !.distances = relaxed.distances, !.previous = relaxed.previous]

\* the locals after one turn of the main loop that visits `current`
TurnVisiting(p, current) ==
  IF current = 0
  THEN [p EXCEPT !.iterations = @ + 1, !.pc = "done"]                 \* break, return null
  ELSE IF current = p.endId
  THEN [p EXCEPT !.iterations = @ + 1, !.unvisited = @ \ {current},
                 !.pc = "reconstruct", !.node = p.endId]
  ELSE LET relaxed == RelaxRoutes(1, current, p.unvisited \ {current}, p.distances, p.previous)
       IN [p EXCEPT !.iterations = @ + 1, !.unvisited = @ \ {current},
                    !.distances = relaxed.distances, !.previous = relaxed.previous]

\* lines 295-335: the loop test and one turn of the loop; the turn counter is
\* capped one above the number of nodes
FspIterate ==
  /\ IsFspProbe
  /\ Val(probe).pc = "loop"
  /\ Val(probe).iterations <= Len(nodes)
  /\ probe' = IF Val(probe).unvisited = {}
              THEN Some([Val(probe) EXCEPT !.pc = "done"])            \* line 337
              ELSE Some(TurnVisiting(Val(probe),
                                     ScanUnvisited(1, Val(probe).distances,
                                                   Val(probe).unvisited, 0, Infinity)))
  /\ UNCHANGED canvasVars
  /\ UNCHANGED <<nodes, routes, isOptimizing, optimizationResult, optimizedPath,
                 showOptimizationResult, lastOp, onOptimizeArg, previousTotal>>

\* lines 314-318: one test of `node !== null` and one turn of the
\* reconstruction; previous[node] of an id without entry is undefined (-1),
\* which is not null; the path is capped two above the number of nodes
FspReconstruct ==
  /\ IsFspProbe
  /\ Val(probe).pc = "reconstruct"
  /\ Len(Val(probe).path) <= Len(nodes) + 1
  /\ probe' = IF Val(probe).node = 0
              THEN Some([Val(probe) EXCEPT
                           !.pc = "done",
                           !.result = Some([path |-> Val(probe).path,
                                            distance |-> Val(probe).distances[Val(probe).endId]])])
              ELSE Some([Val(probe) EXCEPT
                           !.path = <<Val(probe).node>> \o @,
                           !.node = IF Val(probe).node \in DOMAIN Val(probe).previous
                                    THEN Val(probe).previous[Val(probe).node] ELSE -1])
  /\ UNCHANGED canvasVars
  /\ UNCHANGED <<nodes, routes, isOptimizing, optimizationResult, optimizedPath,
                 showOptimizationResult, lastOp, onOptimizeArg, previousTotal>>

\* routes over the ids of `ends`, the two endpoints possibly the same,
\* distances from 0
AnyRouteSeqs(ends, r, maxDist) ==
  {[k \in 1..r |-> [id |-> k, startNodeId |-> f[k][1], endNodeId |-> f[k][2],
                    distance |-> f[k][3]]] :
     f \in [1..r -> ends \X ends \X (0..maxDist)]}

InitSteps ==
  /\ probe = None
  /\ \E n \in 1..MaxStepNodes : \E r \in 0..MaxStepRoutes :
       \E rs \in AnyRouteSeqs(1..(n + 1), r, 1) : InitState(NodeSeq(n), rs)

NextSteps ==
  \/ \E startId \in 1..(Len(nodes) + 1) : \E endId \in 1..(Len(nodes) + 1) :
        FspStart(startId, endId)
  \/ FspIterate
  \/ FspReconstruct
  \/ (probe = None /\ OptimizeRouteSearch)

\* a call that has begun goes on running
SpecSteps ==
  InitSteps /\ [][NextSteps]_vars /\ WF_vars(FspIterate) /\ WF_vars(FspReconstruct)

----------------------------------------------------------------------------
(* getAllEdgePermutations applied on its own to the routes of a graph *)

CallGetAllEdgePermutations(seed) ==
  /\ probe = None
  /\ probe' = Some([edges |-> routes,
                    result |-> getAllEdgePermutations(routes, DrawsFor(seed, 1))])
  /\ UNCHANGED canvasVars
  /\ UNCHANGED <<nodes, routes, isOptimizing, optimizationResult, optimizedPath,
                 showOptimizationResult, lastOp, onOptimizeArg, previousTotal>>

\* enumerated route arrays over three nodes, and rings for the larger counts
InitOrders ==
  /\ probe = None
  /\ \/ \E r \in 0..MaxRoutes : \E rs \in RouteSeqs(1..3, r, MaxDist) :
          InitState(NodeSeq(3), rs)
     \/ \E r \in ((MaxRoutes + 1)..MaxPermRoutes) \cup
                ((ExhaustiveLimit + 1)..(MaxRouteCount + 1)) :
          InitState(NodeSeq(3), RingRoutes(r))

NextOrders ==
  \E seed \in 0..MaxSeed :
     /\ (Len(routes) <= ExhaustiveLimit => seed = 0)  \* no draw is taken
     /\ CallGetAllEdgePermutations(seed)

SpecOrders == InitOrders /\ [][NextOrders]_vars

----------------------------------------------------------------------------
(* traverseEdgesInOrder applied on its own: to a start node and an ordering *)
(* of the routes, and one turn of its loop to a position and a route.  The  *)
(* graphs include routes whose two endpoints are the same node.             *)

CallTraverseEdgesInOrder(startNodeId, perm) ==
  /\ probe = None
  /\ probe' = Some([op |-> "traverseEdgesInOrder",
                    startNodeId |-> startNodeId,
                    edgeOrder |-> [i \in DOMAIN routes |-> routes[perm[i]]],
                    result |-> traverseEdgesInOrder(startNodeId,
                                                    [i \in DOMAIN routes |-> routes[perm[i]]])])
  /\ UNCHANGED canvasVars
  /\ UNCHANGED <<nodes, routes, isOptimizing, optimizationResult, optimizedPath,
                 showOptimizationResult, lastOp, onOptimizeArg, previousTotal>>

CallTraverseStep(currentNode, k) ==
  /\ probe = None
  /\ probe' = Some([op |-> "traverseStep",
                    currentNode |-> currentNode,
                    edge |-> routes[k],
                    after |-> TraverseStep(StartAt(currentNode), routes[k])])
  /\ UNCHANGED canvasVars
  /\ UNCHANGED <<nodes, routes, isOptimizing, optimizationResult, optimizedPath,
                 showOptimizationResult, lastOp, onOptimizeArg, previousTotal>>

\* as RouteSeqs, the two endpoints of a route may be the same node
LoopRouteSeqs(ends, r, maxDist) ==
  {[k \in 1..r |-> [id |-> k, startNodeId |-> f[k][1], endNodeId |-> f[k][2],
                    distance |-> f[k][3]]] :
     f \in [1..r -> ends \X ends \X (1..maxDist)]}

InitWalk ==
  /\ probe = None
  /\ \E n \in 1..MaxNodes : \E r \in 1..MaxRoutes : \E rs \in LoopRouteSeqs(1..n, r, MaxDist) :
       n + r <= MaxSize /\ InitState(NodeSeq(n), rs)

NextWalk ==
  \/ \E startNodeId \in NodeIds : \E perm \in Permutations(DOMAIN routes) :
        CallTraverseEdgesInOrder(startNodeId, perm)
  \/ \E currentNode \in NodeIds : \E k \in DOMAIN routes : CallTraverseStep(currentNode, k)

SpecWalk == InitWalk /\ [][NextWalk]_vars

----------------------------------------------------------------------------
(* getNodeLabel: a label is the sequence of its character codes *)

\* getNodeLabel whose two-letter labels begin again at a
getNodeLabel_SecondLetterOnly(index) ==
  IF index < 26 THEN <<97 + index>>
  ELSE <<97, 97 + ((index - 26) % 26)>>

\* lines 47-68
getNodeLabel(index) ==
  IF index < 26 THEN <<97 + index>>
  ELSE IF index < 702
  THEN <<97 + ((index - 26) \div 26), 97 + ((index - 26) % 26)>>
  ELSE <<97 + ((index - 702) \div 676),
         97 + (((index - 702) % 676) \div 26),
         97 + (((index - 702) % 676) % 26)>>

----------------------------------------------------------------------------
(* CanvasDrawer.  Positions are whole pixels: a distance is compared by its  *)
(* square, a stored distance and an insert point are cut to whole pixels.    *)
(* A canvas node is [id, x, y, label], a route [id, startNodeId, endNodeId,  *)
(* distance] (its `points` repeat the coordinates of its two nodes).         *)

DistSq(x1, y1, x2, y2) == (x2 - x1) * (x2 - x1) + (y2 - y1) * (y2 - y1)

\* Math.sqrt, cut to whole pixels
Sqrt(n) == CHOOSE r \in 0..n : r * r <= n /\ n < (r + 1) * (r + 1)

\* lines 509-511
calculateDistance(x1, y1, x2, y2) == Sqrt(DistSq(x1, y1, x2, y2))

\* MaxId that counts the items
MaxId_Count(items) == Len(items)

\* Math.max(...items.map(i => i.id), 0)
MaxId(items) ==
  IF items = <<>> THEN 0
  ELSE CHOOSE m \in {items[i].id : i \in DOMAIN items} :
         \A i \in DOMAIN items : items[i].id <= m

\* nodes.find(n => n.id === id): the first such node, None for undefined
FindNode(id) ==
  LET found == {i \in DOMAIN canvasNodes : canvasNodes[i].id = id}
  IN IF found = {} THEN None
     ELSE Some(canvasNodes[CHOOSE i \in found : \A j \in found : i <= j])

\* lines 514-527: nearest is an index into nodes, 0 for null; minSq the
\* square of minDistance
RECURSIVE NearestScan(_, _, _, _, _)
NearestScan(i, x, y, nearest, minSq) ==
  IF i > Len(canvasNodes) THEN nearest
  ELSE IF DistSq(x, y, canvasNodes[i].x, canvasNodes[i].y) < minSq
       THEN NearestScan(i + 1, x, y, i, DistSq(x, y, canvasNodes[i].x, canvasNodes[i].y))
       ELSE NearestScan(i + 1, x, y, nearest, minSq)

findNearestNode(x, y) ==
  LET nearest == NearestScan(1, x, y, 0, NodeClickRadius * NodeClickRadius)
  IN IF nearest = 0 THEN None ELSE Some(canvasNodes[nearest])

\* lines 530-541
isTooCloseToExistingNodes(x, y) ==
  \E i \in DOMAIN canvasNodes :
     DistSq(x, y, canvasNodes[i].x, canvasNodes[i].y) < NodeMinDistance * NodeMinDistance

\* lines 551-587 for one route with both nodes found: the click projects into
\* the segment (0 <= param <= 1) and lies within the threshold of the line
NearSegment(x, y, startNode, endNode) ==
  LET A == x - startNode.x
      B == y - startNode.y
      C == endNode.x - startNode.x
      D == endNode.y - startNode.y
      dot == A * C + B * D
      lenSq == C * C + D * D
      cross == A * D - B * C
  IN /\ lenSq /= 0
     /\ dot >= 0
     /\ dot <= lenSq
     /\ cross * cross <= RouteClickThreshold * RouteClickThreshold * lenSq

\* lines 574-575: the foot of the click on the segment
InsertPoint(x, y, startNode, endNode) ==
  LET A == x - startNode.x
      B == y - startNode.y
      C == endNode.x - startNode.x
      D == endNode.y - startNode.y
      dot == A * C + B * D
      lenSq == C * C + D * D
  IN [x |-> startNode.x + ((dot * C) \div lenSq), y |-> startNode.y + ((dot * D) \div lenSq)]

\* lines 544-591: the first route, in array order, the click is near
RECURSIVE findNearestRouteFrom(_, _, _)
findNearestRouteFrom(i, x, y) ==
  IF i > Len(canvasRoutes) THEN None
  ELSE IF /\ IsSome(FindNode(canvasRoutes[i].startNodeId))
          /\ IsSome(FindNode(canvasRoutes[i].endNodeId))
          /\ NearSegment(x, y, Val(FindNode(canvasRoutes[i].startNodeId)),
                          Val(FindNode(canvasRoutes[i].endNodeId)))
       THEN Some([route |-> canvasRoutes[i],
                  insertPoint |-> InsertPoint(x, y, Val(FindNode(canvasRoutes[i].startNodeId)),
                                              Val(FindNode(canvasRoutes[i].endNodeId)))])
       ELSE findNearestRouteFrom(i + 1, x, y)

findNearestRoute(x, y) == findNearestRouteFrom(1, x, y)

\* the routes without those of id `id`
RECURSIVE WithoutRoute(_, _)
WithoutRoute(rs, id) ==
  IF rs = <<>> THEN <<>>
  ELSE IF Head(rs).id = id THEN WithoutRoute(Tail(rs), id)
       ELSE <<Head(rs)>> \o WithoutRoute(Tail(rs), id)

\* a new route between two nodes, as lines 847-853, 893-899, 937-943
NewRoute(id, startNode, endNode) ==
  [id |-> id, startNodeId |-> startNode.id, endNodeId |-> endNode.id,
   distance |-> calculateDistance(startNode.x, startNode.y, endNode.x, endNode.y)]

\* lines 594-619
splitRoute(routeToSplit, newNode) ==
  WithoutRoute(canvasRoutes, routeToSplit.id)
  \o <<[id |-> MaxId(canvasRoutes) + 1,
        startNodeId |-> routeToSplit.startNodeId,
        endNodeId |-> newNode.id,
        distance |-> calculateDistance(Val(FindNode(routeToSplit.startNodeId)).x,
                                       Val(FindNode(routeToSplit.startNodeId)).y,
                                       newNode.x, newNode.y)],
       [id |-> MaxId(canvasRoutes) + 2,
        startNodeId |-> newNode.id,
        endNodeId |-> routeToSplit.endNodeId,
        distance |-> calculateDistance(newNode.x, newNode.y,
                                       Val(FindNode(routeToSplit.endNodeId)).x,
                                       Val(FindNode(routeToSplit.endNodeId)).y)]>>

\* lines 630-635: over the routes of the current render
routeExists(nodeId1, nodeId2) ==
  \E i \in DOMAIN canvasRoutes :
     \/ canvasRoutes[i].startNodeId = nodeId1 /\ canvasRoutes[i].endNodeId = nodeId2
     \/ canvasRoutes[i].startNodeId = nodeId2 /\ canvasRoutes[i].endNodeId = nodeId1

\* lines 871-876, 913-918, 929-934
NewNode(x, y) ==
  [id |-> MaxId(canvasNodes) + 1, x |-> x, y |-> y, label |-> getNodeLabel(Len(canvasNodes))]

\* The outcome of a handler is the record of the canvas state it leaves and
\* of its last onRoutesUpdate call; Canvas is the outcome of doing nothing.
Canvas ==
  [nodes |-> canvasNodes, routes |-> canvasRoutes, selectedNode |-> selectedNode,
   history |-> history, currentStep |-> currentStep, update |-> None, threw |-> FALSE]

\* lines 622-627
saveToHistory(c, newNodes, newRoutes) ==
  [c EXCEPT !.history = Append(SubSeq(history, 1, currentStep + 1),
                               [nodes |-> newNodes, routes |-> newRoutes]),
            !.currentStep = currentStep + 1]

\* setNodes, setRoutes and onRoutesUpdate with the same values
SetGraph(c, newNodes, newRoutes) ==
  [c EXCEPT !.nodes = newNodes, !.routes = newRoutes,
            !.update = Some([routes |-> newRoutes, nodes |-> newNodes])]

\* a property of undefined is read: the handler ends with a TypeError
Throw(c) == [c EXCEPT !.threw = TRUE]

\* lines 837-861: the click is on the node clickedNode
ClickOnNode(clickedNode) ==
  IF selectedNode = 0 THEN [Canvas EXCEPT !.selectedNode = clickedNode.id]
  ELSE IF selectedNode = clickedNode.id THEN [Canvas EXCEPT !.selectedNode = 0]
  ELSE IF routeExists(selectedNode, clickedNode.id) THEN [Canvas EXCEPT !.selectedNode = 0]
  ELSE IF ~IsSome(FindNode(selectedNode)) THEN Throw(Canvas)
  ELSE [SetGraph(saveToHistory(Canvas, canvasNodes,
                               Append(canvasRoutes,
                                      NewRoute(MaxId(canvasRoutes) + 1,
                                               Val(FindNode(selectedNode)), clickedNode))),
                 canvasNodes,
                 Append(canvasRoutes,
                        NewRoute(MaxId(canvasRoutes) + 1,
                                 Val(FindNode(selectedNode)), clickedNode)))
          EXCEPT !.selectedNode = 0]

\* lines 889-906: a node is selected when the route is split; `split` is the
\* outcome of lines 881-884
SplitWithSelection(split, newNode, updatedNodes, updatedRoutes) ==
  IF routeExists(selectedNode, newNode.id) THEN [split EXCEPT !.selectedNode = 0]
  ELSE IF ~IsSome(FindNode(selectedNode)) THEN Throw(split)
  ELSE [SetGraph(split, updatedNodes,
                 Append(updatedRoutes,
                        NewRoute(MaxId(updatedRoutes) + 1, Val(FindNode(selectedNode)), newNode)))
          EXCEPT !.selectedNode = 0]

\* lines 878-906
SplitAt(newNode, updatedNodes, updatedRoutes) ==
  IF selectedNode = 0
  THEN [SetGraph(saveToHistory(Canvas, updatedNodes, updatedRoutes), updatedNodes, updatedRoutes)
          EXCEPT !.selectedNode = newNode.id]
  ELSE SplitWithSelection(SetGraph(saveToHistory(Canvas, updatedNodes, updatedRoutes),
                                   updatedNodes, updatedRoutes),
                          newNode, updatedNodes, updatedRoutes)

\* lines 866-907: the click is near the route nearestRoute.route
ClickOnRoute(nearestRoute) ==
  IF isTooCloseToExistingNodes(nearestRoute.insertPoint.x, nearestRoute.insertPoint.y)
  THEN Canvas
  ELSE SplitAt(NewNode(nearestRoute.insertPoint.x, nearestRoute.insertPoint.y),
               Append(canvasNodes,
                      NewNode(nearestRoute.insertPoint.x, nearestRoute.insertPoint.y)),
               splitRoute(nearestRoute.route,
                          NewNode(nearestRoute.insertPoint.x, nearestRoute.insertPoint.y)))

\* lines 927-951: a new node and a route to it from the selected node
NodeAndRoute(newNode, updatedNodes) ==
  IF ~IsSome(FindNode(selectedNode)) THEN Throw(Canvas)
  ELSE [SetGraph(saveToHistory(Canvas, updatedNodes,
                               Append(canvasRoutes,
                                      NewRoute(MaxId(canvasRoutes) + 1,
                                               Val(FindNode(selectedNode)), newNode))),
                 updatedNodes,
                 Append(canvasRoutes,
                        NewRoute(MaxId(canvasRoutes) + 1, Val(FindNode(selectedNode)), newNode)))
          EXCEPT !.selectedNode = 0]

\* lines 909-957: the click is on empty space
ClickOnEmptySpace(x, y) ==
  IF selectedNode = 0
  THEN IF isTooCloseToExistingNodes(x, y) THEN Canvas
       ELSE [SetGraph(saveToHistory(Canvas, Append(canvasNodes, NewNode(x, y)), canvasRoutes),
                      Append(canvasNodes, NewNode(x, y)), canvasRoutes)
               EXCEPT !.selectedNode = NewNode(x, y).id]
  ELSE IF isTooCloseToExistingNodes(x, y) THEN [Canvas EXCEPT !.selectedNode = 0]
       ELSE NodeAndRoute(NewNode(x, y), Append(canvasNodes, NewNode(x, y)))

\* ClickOutcome without the test of isDrawingEnabled
ClickOutcome_IgnoresSwitch(x, y) ==
  IF IsSome(findNearestNode(x, y)) THEN ClickOnNode(Val(findNearestNode(x, y)))
  ELSE IF IsSome(findNearestRoute(x, y)) THEN ClickOnRoute(Val(findNearestRoute(x, y)))
  ELSE ClickOnEmptySpace(x, y)

\* lines 821-959: the outcome of a click at (x, y)
ClickOutcome(x, y) ==
  IF ~isDrawingEnabled THEN Canvas
  ELSE IF IsSome(findNearestNode(x, y)) THEN ClickOnNode(Val(findNearestNode(x, y)))
  ELSE IF IsSome(findNearestRoute(x, y)) THEN ClickOnRoute(Val(findNearestRoute(x, y)))
  ELSE ClickOnEmptySpace(x, y)

\* UndoOutcome that keeps the selection
UndoOutcome_KeepsSelection ==
  IF currentStep > 0
  THEN [Canvas EXCEPT !.nodes = history[currentStep].nodes,
                      !.routes = history[currentStep].routes,
                      !.update = Some([routes |-> history[currentStep].routes,
                                       nodes |-> history[currentStep].nodes]),
                      !.currentStep = currentStep - 1]
  ELSE Canvas

\* lines 638-647
UndoOutcome ==
  IF currentStep > 0
  THEN [Canvas EXCEPT !.nodes = history[currentStep].nodes,
                      !.routes = history[currentStep].routes,
                      !.update = Some([routes |-> history[currentStep].routes,
                                       nodes |-> history[currentStep].nodes]),
                      !.currentStep = currentStep - 1,
                      !.selectedNode = 0]
  ELSE Canvas

\* lines 92-100, and the effect of lines 194-196 that follows the new props
handleRoutesUpdate(newRoutes, newNodes) ==
  /\ routes' = newRoutes
  /\ nodes' = newNodes
  /\ IF Len(optimizedPath) > 0
     THEN optimizedPath' = <<>> /\ showOptimizationResult' = FALSE
     ELSE UNCHANGED <<optimizedPath, showOptimizationResult>>
  /\ optimizationResult' = None

\* the state an outcome leaves: the canvas state, and App's through
\* onRoutesUpdate when it was called
Leave(c, op) ==
  /\ canvasNodes' = c.nodes
  /\ canvasRoutes' = c.routes
  /\ selectedNode' = c.selectedNode
  /\ history' = c.history
  /\ currentStep' = c.currentStep
  /\ onRoutesUpdateArg' = c.update
  /\ IF IsSome(c.update)
     THEN handleRoutesUpdate(Val(c.update).routes, Val(c.update).nodes)
     ELSE UNCHANGED <<routes, nodes, optimizedPath, showOptimizationResult, optimizationResult>>
  /\ lastOp' = IF c.threw THEN "TypeError" ELSE op
  /\ onOptimizeArg' = None
  /\ previousTotal' = None
  /\ UNCHANGED <<isOptimizing, probe, uploadedImage>>

WithinBounds(c) ==
  /\ Len(c.nodes) <= MaxCanvasNodes
  /\ Len(c.routes) <= MaxCanvasRoutes
  /\ Len(c.history) <= MaxHistory

\* the positions clicked: two points 40px apart, the point between them, and
\* a point 12px from the first
ClickPositions == {<<0, 0>>, <<40, 0>>, <<20, 0>>, <<12, 0>>}

\* lines 821-959; the canvas is rendered once an image is there (line 156)
handleCanvasClick(x, y) ==
  /\ IsSome(uploadedImage)
  /\ WithinBounds(ClickOutcome(x, y))
  /\ Leave(ClickOutcome(x, y), "handleCanvasClick")
  /\ graphBeforeClick' = IF IsSome(ClickOutcome(x, y).update)
                         THEN Some([nodes |-> canvasNodes, routes |-> canvasRoutes])
                         ELSE None
  /\ UNCHANGED isDrawingEnabled

\* lines 638-647; the button is disabled as line 1014 says
undo ==
  /\ IsSome(uploadedImage)
  /\ ~(currentStep <= 0 \/ ~isDrawingEnabled)
  /\ Leave(UndoOutcome, "undo")
  /\ graphBeforeClick' = None
  /\ UNCHANGED isDrawingEnabled

\* lines 980-988, and the effect of lines 501-506 that refills the history
clearAll ==
  /\ IsSome(uploadedImage)
  /\ Leave([nodes |-> <<>>, routes |-> <<>>, selectedNode |-> 0,
            history |-> <<[nodes |-> <<>>, routes |-> <<>>]>>, currentStep |-> 0,
            update |-> Some([routes |-> <<>>, nodes |-> <<>>]), threw |-> FALSE],
           "clearAll")
  /\ isDrawingEnabled' = TRUE
  /\ graphBeforeClick' = None

\* lines 990-996
toggleDrawing ==
  /\ IsSome(uploadedImage)
  /\ isDrawingEnabled' = ~isDrawingEnabled
  /\ Leave(IF isDrawingEnabled THEN [Canvas EXCEPT !.selectedNode = 0] ELSE Canvas,
           "toggleDrawing")
  /\ graphBeforeClick' = None

\* lines 83-90, with the effect of lines 194-196; the first image mounts the
\* canvas (lines 156-161, 493-506), a later one leaves its state alone
handleImageUpload ==
  /\ uploadedImage' = Some("map")
  /\ routes' = <<>>
  /\ nodes' = <<>>
  /\ optimizedPath' = <<>>
  /\ showOptimizationResult' = FALSE
  /\ optimizationResult' = None
  /\ IF IsSome(uploadedImage)
     THEN UNCHANGED <<canvasNodes, canvasRoutes, selectedNode, history, currentStep,
                      isDrawingEnabled>>
     ELSE /\ canvasNodes' = <<>>
          /\ canvasRoutes' = <<>>
          /\ selectedNode' = 0
          /\ history' = <<[nodes |-> <<>>, routes |-> <<>>]>>
          /\ currentStep' = 0
          /\ isDrawingEnabled' = TRUE
  /\ onRoutesUpdateArg' = None
  /\ graphBeforeClick' = None
  /\ lastOp' = "handleImageUpload"
  /\ onOptimizeArg' = None
  /\ previousTotal' = None
  /\ UNCHANGED <<isOptimizing, probe>>

\* the optimizer's buttons are rendered with an image and canOptimize (lines
\* 126, 432-440), Clear Optimization with a result (lines 442, 453)
ClickOptimize ==
  /\ IsSome(uploadedImage)
  /\ canOptimize
  /\ ~isOptimizing
  /\ OptimizeRouteSearch

ClickClearOptimization ==
  /\ IsSome(uploadedImage)
  /\ canOptimize
  /\ resetOptimization

\* getNodeLabel applied on its own to an index
CallGetNodeLabel(index) ==
  /\ probe = None
  /\ ~IsSome(uploadedImage)
  /\ probe' = Some([op |-> "getNodeLabel", index |-> index, label |-> getNodeLabel(index)])
  /\ UNCHANGED canvasVars
  /\ UNCHANGED <<nodes, routes, isOptimizing, optimizationResult, optimizedPath,
                 showOptimizationResult, lastOp, onOptimizeArg, previousTotal>>

InitUI ==
  /\ probe = None
  /\ InitState(<<>>, <<>>)

\* a session with the application begins with no helper applied on its own
NextUI ==
  \/ (probe = None /\ handleImageUpload)
  \/ \E pos \in ClickPositions : handleCanvasClick(pos[1], pos[2])
  \/ undo
  \/ clearAll
  \/ toggleDrawing
  \/ ClickOptimize
  \/ ClickClearOptimization
  \/ \E index \in 0..MaxLabelIndex : CallGetNodeLabel(index)

SpecUI == InitUI /\ [][NextUI]_vars

----------------------------------------------------------------------------
(* Reference notions the properties are stated with *)

RECURSIVE Factorial(_)
Factorial(n) == IF n <= 1 THEN 1 ELSE n * Factorial(n - 1)

\* the route ids of an ordering, in its order
IdsOf(order) == [i \in DOMAIN order |-> order[i].id]

\* order holds every route of edges exactly once
IsOrderingOf(order, edges) ==
  /\ Len(order) = Len(edges)
  /\ \A k \in DOMAIN edges : Cardinality({i \in DOMAIN order : order[i] = edges[k]}) = 1

SortedBy(order, descending) ==
  \A i \in 1..(Len(order) - 1) : Compare(order[i], order[i + 1], descending) <= 0

MinOf(S) == CHOOSE x \in S : \A y \in S : x <= y

Joins(k, u, v) ==
  \/ routes[k].startNodeId = u /\ routes[k].endNodeId = v
  \/ routes[k].startNodeId = v /\ routes[k].endNodeId = u

Adjacent(u, v) == \E k \in DOMAIN routes : Joins(k, u, v)

\* the node ids reachable from the set S along routes, in either direction
RECURSIVE ReachableFrom(_)
ReachableFrom(S) ==
  LET T == S \cup {routes[k].endNodeId : k \in {j \in DOMAIN routes : routes[j].startNodeId \in S}}
             \cup {routes[k].startNodeId : k \in {j \in DOMAIN routes : routes[j].endNodeId \in S}}
  IN IF T = S THEN S ELSE ReachableFrom(T)

\* no node is isolated and there is one component
Connected == Len(nodes) >= 1 /\ ReachableFrom({nodes[1].id}) = NodeIds

\* two routes lie in different components
RoutesInTwoComponents ==
  \E j, k \in DOMAIN routes : routes[k].startNodeId \notin ReachableFrom({routes[j].startNodeId})

\* The least total weight of a walk from `start` that makes at most k route
\* traversals, ends at node v and has traversed exactly the routes of C
\* (Infinity when there is none): one relaxation round per traversal.
RECURSIVE WalkDist(_, _)
WalkDist(start, k) ==
  IF k = 0
  THEN [v \in NodeIds, C \in SUBSET DOMAIN routes |->
          IF v = start /\ C = {} THEN 0 ELSE Infinity]
  ELSE LET prev == WalkDist(start, k - 1)
       IN [v \in NodeIds, C \in SUBSET DOMAIN routes |->
             MinOf({prev[v, C]} \cup
                   UNION {{prev[x[1], x[2]] + routes[j].distance :
                             x \in {y \in NodeIds \X {C, C \ {j}} :
                                      Joins(j, y[1], v) /\ prev[y[1], y[2]] < Infinity}} :
                          j \in C})]

\* the weight of a shortest closed walk that traverses every route: such a
\* walk needs no route more than twice
ShortestClosedCoveringWalk ==
  MinOf({WalkDist(s, 2 * Len(routes))[s, DOMAIN routes] : s \in NodeIds})

\* the weight of the lightest route between two adjacent nodes
LightestRoute(u, v) == MinOf({routes[k].distance : k \in {j \in DOMAIN routes : Joins(j, u, v)}})

\* every path from s along routes that visits no node twice, by extending the
\* paths of `paths` at most k times
RECURSIVE ExtendPaths(_, _)
ExtendPaths(paths, k) ==
  IF k = 0 \/ paths = {} THEN paths
  ELSE paths \cup
       ExtendPaths({Append(p, v) : <<p, v>> \in {x \in paths \X NodeIds :
                                      x[2] \notin Range(x[1]) /\ Adjacent(x[1][Len(x[1])], x[2])}},
                   k - 1)

SimplePaths(s, t) == {p \in ExtendPaths({<<s>>}, Len(nodes)) : p[Len(p)] = t}

RECURSIVE PathWeight(_)
PathWeight(p) ==
  IF Len(p) <= 1 THEN 0
  ELSE LightestRoute(p[1], p[2]) + PathWeight(Tail(p))

Searched == lastOp = "optimizeRoute:searched"

\* the path handed to onOptimize by the last handler
ReportedPath == Val(onOptimizeArg)

\* some pair of consecutive node ids of path is the pair of endpoints of route k
Traverses(path, k) ==
  \E i \in 1..(Len(path) - 1) : Joins(k, path[i], path[i + 1])

\* every ordering of the routes, as a set
AllOrderings == {[i \in DOMAIN routes |-> routes[p[i]]] : p \in Permutations(DOMAIN routes)}

WalkBuilderTotals ==
  {Val(traverseEdgesInOrder(s, o)).totalDistance : s \in NodeIds, o \in AllOrderings}

----------------------------------------------------------------------------
(* Claims *)

\* C1: after an accepted optimizeRoute, the path passed to onOptimize begins
\* and ends at the same node id.
C1_ReportedWalkIsClosed ==
  Searched => /\ Len(ReportedPath) >= 1
              /\ ReportedPath[1] = ReportedPath[Len(ReportedPath)]

\* C2: after an accepted optimizeRoute, every route is traversed by the
\* reported path: its two endpoints are consecutive in the path, in either
\* direction.
C2_ReportedWalkCoversEveryRoute ==
  Searched => \A k \in DOMAIN routes : Traverses(ReportedPath, k)

\* C3: with at most 8 routes the reported total distance is the minimum of the
\* Walk Builder's totals over every start node and every permutation of the
\* routes.
C3_TotalIsMinimumOverCrossProduct ==
  (Searched /\ Len(routes) <= ExhaustiveLimit) =>
     Val(optimizationResult).totalDistance = MinOf(WalkBuilderTotals)

\* C3 witness: a searched graph on which the Walk Builder's totals differ, so
\* that the minimum is a choice
C3_Witness ==
  /\ Searched
  /\ Len(routes) = 3
  /\ Connected
  /\ \E t \in WalkBuilderTotals : t > Val(optimizationResult).totalDistance

\* C4: on a connected graph with at most 8 routes no closed walk that
\* traverses every route is shorter than the reported total distance.
C4_TotalIsShortestClosedCoveringWalk ==
  (Searched /\ Len(routes) <= ExhaustiveLimit /\ Connected) =>
     Val(optimizationResult).totalDistance <= ShortestClosedCoveringWalk

\* C5: a call of optimizeRoute with no route or with more than 12 routes
\* leaves optimizationResult, isOptimizing and the App state as they were, does
\* not search and does not call onOptimize.
C5_RejectedCallChangesNothing ==
  [][(Len(routes) < 1 \/ Len(routes) > MaxRouteCount) =>
        /\ optimizationResult' = optimizationResult
        /\ isOptimizing' = isOptimizing
        /\ optimizedPath' = optimizedPath
        /\ showOptimizationResult' = showOptimizationResult
        /\ onOptimizeArg' = None
        /\ lastOp' \in {"optimizeRoute:alertNoRoutes", "optimizeRoute:alertTooMany"}]_vars

\* C5 witness: optimizeRoute has been called with 13 routes and has alerted
C5_Witness ==
  /\ lastOp = "optimizeRoute:alertTooMany"
  /\ Len(routes) = MaxRouteCount + 1
  /\ optimizationResult = None

\* C6: when two routes lie in different components no walk is reported: the
\* optimizer leaves no result and passes no path to onOptimize.
C6_DisconnectedReportsNoWalk ==
  RoutesInTwoComponents => (optimizationResult = None /\ onOptimizeArg = None)

\* C7: a graph with a route that names a node id missing from `nodes` is
\* rejected before any search: nothing is searched, stored or reported.
C7_UnknownEndpointIsRejected ==
  HasUnknownEndpoint(routes) =>
     (~Searched /\ optimizationResult = None /\ onOptimizeArg = None)

\* C8: two nodes and one route between them of weight w: the reported walk is
\* [a, b, a] over the two endpoints and the total distance is 2 * w.
C8_SingleRouteThereAndBack ==
  (Searched /\ Len(nodes) = 2 /\ Len(routes) = 1) =>
     \E a, b \in NodeIds :
        /\ a /= b
        /\ Joins(1, a, b)
        /\ Val(optimizationResult) =
             [path |-> <<a, b, a>>, totalDistance |-> 2 * routes[1].distance]
        /\ onOptimizeArg = Some(<<a, b, a>>)

\* C8 witness: the search has run on such a graph
C8_Witness ==
  /\ Searched
  /\ Len(nodes) = 2
  /\ Len(routes) = 1
  /\ routes[1].distance = 2
  /\ Len(optimizedPath) = 3

\* C9: for distinct nodes s, t with t reachable from s, findShortestPath(s, t)
\* returns a path from s to t whose consecutive nodes are joined by routes, and
\* its distance is the least weight of any path from s to t.
C9_ShortestPathIsShortest ==
  (IsSome(probe) /\ Val(probe).startId /= Val(probe).endId
                 /\ Val(probe).endId \in ReachableFrom({Val(probe).startId})) =>
     /\ IsSome(Val(probe).result)
     /\ LET path == Val(Val(probe).result).path
        IN /\ Len(path) >= 2
           /\ path[1] = Val(probe).startId
           /\ path[Len(path)] = Val(probe).endId
           /\ \A i \in 1..(Len(path) - 1) : Adjacent(path[i], path[i + 1])
     /\ Val(Val(probe).result).distance =
          MinOf({PathWeight(p) : p \in SimplePaths(Val(probe).startId, Val(probe).endId)})

\* C9 witness: the shortest path found goes through a third node although a
\* heavier route joins s and t directly
C9_Witness ==
  /\ IsSome(probe)
  /\ IsSome(Val(probe).result)
  /\ Len(Val(Val(probe).result).path) = 3
  /\ Adjacent(Val(probe).startId, Val(probe).endId)
  /\ Val(Val(probe).result).distance < LightestRoute(Val(probe).startId, Val(probe).endId)

\* C10: findShortestPath(s, t) returns null exactly when t is not reachable
\* from s along routes.
C10_NullIffUnreachable ==
  IsSome(probe) =>
     (Val(probe).result = None <=> Val(probe).endId \notin ReachableFrom({Val(probe).startId}))

\* C10 witness: null was returned for a target in another component, in a
\* graph where the source has routes
C10_Witness ==
  /\ IsSome(probe)
  /\ Val(probe).result = None
  /\ Cardinality(ReachableFrom({Val(probe).startId})) >= 3

\* C11: for 1 < n <= 8 routes getAllEdgePermutations returns exactly n!
\* orderings, pairwise different as sequences of route ids, each holding every
\* input route exactly once.
C11_AllPermutations ==
  (IsSome(probe) /\ 1 < Len(Val(probe).edges) /\ Len(Val(probe).edges) <= ExhaustiveLimit) =>
     LET result == Val(probe).result
     IN /\ Len(result) = Factorial(Len(Val(probe).edges))
        /\ Cardinality({IdsOf(result[i]) : i \in DOMAIN result}) = Len(result)
        /\ \A i \in DOMAIN result : IsOrderingOf(result[i], Val(probe).edges)

\* C11 witness: the generator has permuted five routes into more orderings
\* than the sampled regime would give
C11_Witness ==
  /\ IsSome(probe)
  /\ Len(Val(probe).edges) = 5
  /\ Len(Val(probe).result) > RandomOrders + 2

\* C12: for more than 8 routes the generator returns exactly 12 orderings: the
\* first sorted ascending by distance, the second descending, ten shuffled;
\* every one holds each input route exactly once, and the input array is as it
\* was.
C12_TwelveSampledOrderings ==
  (IsSome(probe) /\ Len(Val(probe).edges) > ExhaustiveLimit) =>
     LET result == Val(probe).result
     IN /\ Len(result) = RandomOrders + 2
        /\ SortedBy(result[1], FALSE)
        /\ SortedBy(result[2], TRUE)
        /\ \A i \in DOMAIN result : IsOrderingOf(result[i], Val(probe).edges)
        /\ routes = Val(probe).edges

\* C12 witness: the generator has sampled, and some shuffle produced an order
\* that is neither the input's nor one of the sorted ones
C12_Witness ==
  /\ IsSome(probe)
  /\ Len(Val(probe).edges) > ExhaustiveLimit
  /\ \E i \in 3..(RandomOrders + 2) :
        Val(probe).result[i] \notin {Val(probe).edges, Val(probe).result[1], Val(probe).result[2]}

\* three nodes and three routes, one between every two of the nodes
IsTriangle ==
  /\ Len(nodes) = 3
  /\ Len(routes) = 3
  /\ \A u, v \in NodeIds : u /= v => Adjacent(u, v)

\* how often the path goes over route k
TimesTraversed(path, k) ==
  Cardinality({i \in 1..(Len(path) - 1) : Joins(k, path[i], path[i + 1])})

C15_GraphIsReadOnly ==
  [][lastOp' = "optimizeRoute:searched" => (routes' = routes /\ nodes' = nodes)]_vars

\* C15 witness: a sampled search has run over routes that are in neither
\* sorted order
C15_Witness ==
  /\ Searched
  /\ Len(routes) > ExhaustiveLimit
  /\ ~SortedBy(routes, FALSE)
  /\ ~SortedBy(routes, TRUE)

\* C16: on a triangle the reported walk has four node ids, is closed, goes
\* over each of the three routes exactly once, and its total distance is the
\* sum of the three distances, which no start node and no ordering undercuts.
C16_TriangleIsWalkedOnce ==
  (Searched /\ IsTriangle) =>
     /\ Len(ReportedPath) = 4
     /\ ReportedPath[1] = ReportedPath[4]
     /\ ReportedPath = Val(optimizationResult).path
     /\ \A k \in DOMAIN routes : TimesTraversed(ReportedPath, k) = 1
     /\ Val(optimizationResult).totalDistance =
          routes[1].distance + routes[2].distance + routes[3].distance
     /\ \A t \in WalkBuilderTotals : t >= Val(optimizationResult).totalDistance

\* C16 witness: a searched triangle with routes of different distances
C16_Witness ==
  /\ Searched
  /\ IsTriangle
  /\ routes[1].distance /= routes[3].distance
  /\ Len(optimizedPath) = 4

\* the least weight of a path from s to t along routes (t reachable from s)
ShortestDist(s, t) == MinOf({PathWeight(p) : p \in SimplePaths(s, t)})

IsWalkProbe == IsSome(probe) /\ Val(probe).op = "traverseEdgesInOrder"

IsStepProbe == IsSome(probe) /\ Val(probe).op = "traverseStep"

\* the locals of the walk of the probe when it comes to the i-th route of its
\* ordering (i = Len + 1: when the loop is over)
WalkBefore(i) ==
  TraverseLoop(SubSeq(Val(probe).edgeOrder, 1, i - 1), 1, StartAt(Val(probe).startNodeId))

\* at position cur neither endpoint of edge is at hand or reachable
CannotReach(cur, edge) ==
  /\ cur /= edge.startNodeId
  /\ cur /= edge.endNodeId
  /\ edge.startNodeId \notin ReachableFrom({cur})
  /\ edge.endNodeId \notin ReachableFrom({cur})

\* the distance findShortestPath returned for a leg, nothing for no path
LegDistance(legPath) == IF IsSome(legPath) THEN Val(legPath).distance ELSE 0

ConnectingLegDistance(cur, edge) ==
  IF cur /= edge.startNodeId /\ cur /= edge.endNodeId
  THEN LegDistance(ChoosePath(findShortestPath(cur, edge.startNodeId),
                              findShortestPath(cur, edge.endNodeId)))
  ELSE 0

RECURSIVE RouteWeights(_, _)
RouteWeights(edgeOrder, i) ==
  IF i > Len(edgeOrder) THEN 0 ELSE edgeOrder[i].distance + RouteWeights(edgeOrder, i + 1)

RECURSIVE LegDistances(_)
LegDistances(i) ==
  IF i > Len(Val(probe).edgeOrder)
  THEN LegDistance(findShortestPath(WalkBefore(i).currentNode, Val(probe).startNodeId))
  ELSE ConnectingLegDistance(WalkBefore(i).currentNode, Val(probe).edgeOrder[i])
       + LegDistances(i + 1)

\* C13: traverseEdgesInOrder returns null when at some route of the ordering
\* the position is neither endpoint and neither endpoint is reachable, and when
\* the start node is unreachable from the final position.
C13_UnreachableAbandonsAttempt ==
  (IsWalkProbe /\
   \/ \E i \in DOMAIN Val(probe).edgeOrder :
         CannotReach(WalkBefore(i).currentNode, Val(probe).edgeOrder[i])
   \/ Val(probe).startNodeId \notin
         ReachableFrom({WalkBefore(Len(Val(probe).edgeOrder) + 1).currentNode}))
  => Val(probe).result = None

\* C17: in a walk traverseEdgesInOrder returns, every two consecutive node ids
\* are the endpoints of some route (the same id twice only for a route from a
\* node to itself).
C17_WalkFollowsRoutes ==
  (IsWalkProbe /\ IsSome(Val(probe).result)) =>
     LET path == Val(Val(probe).result).path
     IN \A i \in 1..(Len(path) - 1) : Adjacent(path[i], path[i + 1])

\* C18: the total distance traverseEdgesInOrder returns is the sum of the
\* distances of the routes of the ordering plus, for every connecting leg and
\* for the closing leg, the distance findShortestPath returned for the leg.
C18_TotalIsRoutesPlusLegs ==
  (IsWalkProbe /\ IsSome(Val(probe).result)) =>
     Val(Val(probe).result).totalDistance =
        RouteWeights(Val(probe).edgeOrder, 1) + LegDistances(1)

\* C19: one turn of the loop from a position that is an endpoint of the route
\* adds no leg and moves to the other endpoint; from any other position from
\* which the route is reachable it goes to an endpoint of least shortest-path
\* distance and then over the route to the other endpoint.
C19_NearerEndpointThenAcross ==
  IsStepProbe =>
     LET cur == Val(probe).currentNode
         edge == Val(probe).edge
         after == Val(probe).after
         n == Len(after.path)
     IN IF cur = edge.startNodeId \/ cur = edge.endNodeId
        THEN /\ after.path = <<cur, IF cur = edge.startNodeId THEN edge.endNodeId
                                                              ELSE edge.startNodeId>>
             /\ after.currentNode = after.path[2]
        ELSE edge.startNodeId \in ReachableFrom({cur}) =>
               /\ n >= 3
               /\ after.path[1] = cur
               /\ {after.path[n - 1], after.path[n]} = {edge.startNodeId, edge.endNodeId}
               /\ \A i \in 2..(n - 2) : after.path[i] \notin {edge.startNodeId, edge.endNodeId}
               /\ \A i \in 1..(n - 1) : Adjacent(after.path[i], after.path[i + 1])
               /\ ShortestDist(cur, after.path[n - 1]) <= ShortestDist(cur, after.path[n])
               /\ after.currentNode = after.path[n]

\* C19 witness: the turn went to the route's end node, which was nearer than
\* its start node, and crossed to the start node
C19_Witness ==
  /\ IsStepProbe
  /\ Val(probe).currentNode \notin {Val(probe).edge.startNodeId, Val(probe).edge.endNodeId}
  /\ Val(probe).edge.startNodeId \in ReachableFrom({Val(probe).currentNode})
  /\ ShortestDist(Val(probe).currentNode, Val(probe).edge.endNodeId)
       < ShortestDist(Val(probe).currentNode, Val(probe).edge.startNodeId)
  /\ Val(probe).after.currentNode = Val(probe).edge.startNodeId

\* C20: one turn of the loop at node n over a route from n to n adds the
\* route's distance to the total, marks the route covered and stays at n.
C20_DegenerateRouteInPlace ==
  (IsStepProbe /\ Val(probe).edge.startNodeId = Val(probe).edge.endNodeId
               /\ Val(probe).currentNode = Val(probe).edge.startNodeId) =>
     /\ Val(probe).after.totalDistance = Val(probe).edge.distance
     /\ Val(probe).after.edgesCovered = {Val(probe).edge.id}
     /\ Val(probe).after.currentNode = Val(probe).currentNode
     /\ Val(probe).after.path = <<Val(probe).currentNode, Val(probe).currentNode>>

\* C20 witness: such a turn over a route of distance 2
C20_Witness ==
  /\ IsStepProbe
  /\ Val(probe).edge.startNodeId = Val(probe).edge.endNodeId
  /\ Val(probe).currentNode = Val(probe).edge.startNodeId
  /\ Val(probe).edge.distance = 2
  /\ Val(probe).after.totalDistance = 2

\* C21: findShortestPath(s, s) returns the path [s] with distance 0.
C21_SameNodeTrivialPath ==
  (IsSome(probe) /\ Val(probe).startId = Val(probe).endId) =>
     Val(probe).result = Some([path |-> <<Val(probe).startId>>, distance |-> 0])

\* C21 witness: the function has been applied to a node and itself, the node
\* having routes to other nodes
C21_Witness ==
  /\ IsSome(probe)
  /\ Val(probe).startId = Val(probe).endId
  /\ IsSome(Val(probe).result)
  /\ Cardinality(ReachableFrom({Val(probe).startId})) >= 2

\* the stepwise call returns what findShortestPath returns
FspStepsAgree ==
  (IsFspProbe /\ Val(probe).pc = "done") =>
     Val(probe).result = findShortestPath(Val(probe).startId, Val(probe).endId)

\* C22: a findShortestPath call makes at most |nodes| turns of its main loop,
\* its reconstruction never meets an id without entry in `previous`, and the
\* call returns; and after an accepted optimizeRoute isOptimizing is false.
C22_SearchTerminates ==
  /\ [](IsFspProbe => /\ Val(probe).iterations <= Len(nodes)
                      /\ Val(probe).node /= -1
                      /\ Len(Val(probe).path) <= Len(nodes))
  /\ [](Searched => isOptimizing = FALSE)
  /\ ((IsFspProbe /\ Val(probe).pc /= "done") ~> (IsFspProbe /\ Val(probe).pc = "done"))

\* C22 witness: a call has returned a path after as many turns as there are
\* nodes, over a route of distance 0
C22_Witness ==
  /\ IsFspProbe
  /\ Val(probe).pc = "done"
  /\ Len(nodes) = 3
  /\ Val(probe).iterations = 3
  /\ IsSome(Val(probe).result)
  /\ Len(Val(Val(probe).result).path) = 3
  /\ \E k \in DOMAIN routes : routes[k].distance = 0

\* two routes join the same two nodes
ParallelRoutes(rs) ==
  \E i, j \in DOMAIN rs :
     /\ i < j
     /\ {rs[i].startNodeId, rs[i].endNodeId} = {rs[j].startNodeId, rs[j].endNodeId}

IsLabelProbe == IsSome(probe) /\ Val(probe).op = "getNodeLabel"

\* C23: a non-empty optimizedPath and a non-null optimizationResult are the
\* result of the search on the current routes and nodes, and every change of
\* routes or nodes empties optimizedPath, sets showOptimizationResult to false
\* and nulls optimizationResult.
C23_ResultFollowsGraph ==
  /\ [](Len(optimizedPath) > 0 => optimizedPath = OptimizeResult(0).path)
  /\ [](IsSome(optimizationResult) => Val(optimizationResult) = OptimizeResult(0))
  /\ [][(routes' /= routes \/ nodes' /= nodes) =>
          /\ optimizedPath' = <<>>
          /\ showOptimizationResult' = FALSE
          /\ optimizationResult' = None]_vars

\* C24: the routes and nodes of App are those of CanvasDrawer.
C24_AppAndCanvasAgree ==
  routes = canvasRoutes /\ nodes = canvasNodes

\* C25: an undo that follows a click that changed the graph restores the
\* nodes and routes the canvas had before that click and clears the selection.
C25_UndoRevertsLastClick ==
  [][(IsSome(graphBeforeClick) /\ lastOp' = "undo") =>
        /\ canvasNodes' = Val(graphBeforeClick).nodes
        /\ canvasRoutes' = Val(graphBeforeClick).routes
        /\ selectedNode' = 0]_vars

\* C26: no two routes of the canvas join the same two nodes.
C26_NoParallelRoutes ==
  ~ParallelRoutes(canvasRoutes)

\* C27: in the graph App hands to the optimizer node ids are pairwise
\* distinct, route ids are pairwise distinct, every endpoint of a route is the
\* id of a node, and no route joins a node with itself.
C27_GraphIsWellFormed ==
  /\ \A i, j \in DOMAIN nodes : nodes[i].id = nodes[j].id => i = j
  /\ \A i, j \in DOMAIN routes : routes[i].id = routes[j].id => i = j
  /\ \A k \in DOMAIN routes :
        /\ routes[k].startNodeId \in NodeIds
        /\ routes[k].endNodeId \in NodeIds
        /\ routes[k].startNodeId /= routes[k].endNodeId

\* C27 witness: a route has been split while a node was selected, which
\* removed a route and added three
C27_Witness ==
  /\ Len(nodes) = 3
  /\ Len(routes) = 3
  /\ \A k \in DOMAIN routes : routes[k].id > 1
  /\ lastOp = "handleCanvasClick"

\* C28: selectedNode is null or the id of a node of the canvas, and no click
\* handler has read a property of a node it did not find.
C28_SelectionIsANode ==
  /\ selectedNode = 0 \/ \E i \in DOMAIN canvasNodes : canvasNodes[i].id = selectedNode
  /\ lastOp /= "TypeError"

\* C28 witness: an undo has removed nodes while drawing went on
C28_Witness ==
  /\ lastOp = "undo"
  /\ Len(canvasNodes) = 1
  /\ Len(history) >= 3
  /\ selectedNode = 0

\* C29: a click while drawing is disabled leaves nodes, routes, selectedNode,
\* history and currentStep as they were and calls onRoutesUpdate not; and
\* while drawing is disabled no node is selected.
C29_DisabledClickChangesNothing ==
  /\ [][(~isDrawingEnabled /\ lastOp' = "handleCanvasClick") =>
          /\ UNCHANGED <<canvasNodes, canvasRoutes, selectedNode, history, currentStep>>
          /\ UNCHANGED <<nodes, routes>>
          /\ onRoutesUpdateArg' = None]_vars
  /\ [](~isDrawingEnabled => selectedNode = 0)

\* C29 witness: the canvas has been clicked while drawing was disabled, with
\* a graph on it
C29_Witness ==
  /\ ~isDrawingEnabled
  /\ lastOp = "handleCanvasClick"
  /\ Len(canvasNodes) >= 2
  /\ Len(canvasRoutes) >= 1

\* C30: the node at position i of nodes (from 0) has the label
\* getNodeLabel(i) and the id i + 1; and the labels of the indices below 702
\* are pairwise different.
C30_LabelsFollowPositions ==
  /\ \A i \in DOMAIN canvasNodes :
        /\ canvasNodes[i].label = getNodeLabel(i - 1)
        /\ canvasNodes[i].id = i
  /\ \A i, j \in DOMAIN canvasNodes : canvasNodes[i].label = canvasNodes[j].label => i = j
  /\ (IsLabelProbe /\ Val(probe).index < 702) =>
        \A j \in 0..701 : j /= Val(probe).index => getNodeLabel(j) /= Val(probe).label

\* C30 witness: the third node of the canvas is c, made by a click that split
\* a route
C30_Witness ==
  /\ Len(canvasNodes) = 3
  /\ canvasNodes[3].label = <<99>>
  /\ canvasNodes[3].id = 3
  /\ Len(canvasRoutes) >= 2
  /\ lastOp = "handleCanvasClick"

====
